---- MODULE Spec2Model ----
(***************************************************************************)
(* qubricks: the adiabatic spectrum tracker (analysis/spectrum.py) and the *)
(* StateOperator variants (wall/stateoperators.py).                        *)
(*                                                                         *)
(* A behaviour is either one call of energy_spectrum, stepped statement    *)
(* group by statement group, or a session of calls on StateOperator        *)
(* instances.  Python's 0-based positions are 1-based here.                *)
(***************************************************************************)
EXTENDS Integers, Sequences, FiniteSets, TLC

\* ---------------------------------------------------------------- bounds
Dim == 3            \* system.dim of the systems explored
MaxStates == 2      \* longest list of tracked states explored
NSweep == 2         \* number of sweep points of every range explored
MaxObjs == 5        \* most StateOperator instances alive in a session

\* ------------------------------------------------------- complex numbers
\* A complex number is <<re, im>> with integer parts.
CZero == <<0, 0>>
COne == <<1, 0>>
CAdd(a, b) == <<a[1] + b[1], a[2] + b[2]>>
CMul(a, b) == <<a[1] * b[1] - a[2] * b[2], a[1] * b[2] + a[2] * b[1]>>
Norm2(a) == a[1] * a[1] + a[2] * a[2]
\* numpy orders complex numbers by real part, then by imaginary part
CLess(a, b) == a[1] < b[1] \/ (a[1] = b[1] /\ a[2] < b[2])
Phases == {<<1, 0>>, <<-1, 0>>, <<0, 1>>, <<0, -1>>}

Slots == 1..Dim
Unit(k) == [m \in Slots |-> IF m = k THEN COne ELSE CZero]
Scale(u, v) == [m \in Slots |-> CMul(u, v[m])]

\* ------------------------------------------------------------- the heap
\* Python dicts (and the list a caller may wrongly pass as ranges) are heap
\* objects [type, d]; a variable holds a reference, 0 standing for None.
NoneRef == 0
ParamsRef == 1
RangesRef == 2
ParamsInitRef == 3

Overlay(d, e) == [k \in (DOMAIN d) \cup (DOMAIN e) |-> IF k \in DOMAIN e THEN e[k] ELSE d[k]]

\* d.update(e) on the object at r
Update(h, r, e) == [h EXCEPT ![r].d = Overlay(@, e)]

\* d.copy(): a new object with the same items
Copy(h, r) == [heap |-> Append(h, h[r]), ref |-> Len(h) + 1]

\* a slip: vals bound to the params object itself
AliasVals(h, r) == [heap |-> h, ref |-> r]

\* vals = params.copy()
NewVals(h, r) == Copy(h, r)

\* ------------------------------------------------- the external Operator
Bases == {"std", "rev"}
\* position in basis b of the basis vector that is k-th in "std"
BasisPerm(b, k) == IF b = "std" THEN k ELSE Dim + 1 - k

NoOp == [name |-> "None", comps |-> <<>>, basis |-> "std", bparams |-> NoneRef]
UserH == [name |-> "user", comps |-> <<>>, basis |-> "std", bparams |-> NoneRef]
UserInitH == [name |-> "userinit", comps |-> <<>>, basis |-> "std", bparams |-> NoneRef]

\* system.H(*components)
SystemH(comps) == [name |-> "sys", comps |-> comps, basis |-> "std", bparams |-> NoneRef]

\* operator.change_basis(basis, params=p): p is the reference handed over
ChangeBasis(op, b, p) == [op EXCEPT !.basis = b, !.bparams = p]

HasComp(comps, c) == \E n \in DOMAIN comps : comps[n] = c

\* k-th energy level of the operator in the parameter context vals
Level(op, k, vals) ==
    IF op.name = "sys"
    THEN (IF HasComp(op.comps, "a") THEN k * vals.x ELSE 0)
         + (IF HasComp(op.comps, "b") THEN 0 - k * vals.y ELSE 0)
    ELSE IF op.name = "user" THEN (Dim - k) * vals.x + vals.y
    ELSE ((k % Dim) + 1) * vals.x

\* numpy.linalg.eig(op(**vals)): eigenvalues in the operator's own order and
\* the matrix whose k-th column is the k-th eigenvector, in the operator's basis
Eig(op, vals) ==
    [evals |-> [k \in Slots |-> Level(op, k, vals)],
     evecs |-> [m \in Slots |-> [k \in Slots |->
                   IF m = BasisPerm(op.basis, k) THEN COne ELSE CZero]]]

\* system.subspace(states, input, output, params): each state re-expressed
\* in the output basis
Subspace(sts, inb, outb) ==
    [j \in DOMAIN sts |-> [m \in Slots |->
        sts[j][BasisPerm(inb, BasisPerm(outb, m))]]]

\* system.p.range(*names, **context): a list for one name, a dict for more
RangeExpand(names, ctx) ==
    IF Cardinality(names) = 1
    THEN [type |-> "list", d |-> [k \in names |-> ctx[k]]]
    ELSE [type |-> "dict", d |-> [k \in names |-> ctx[k]]]

\* ------------------------------------------------------------- sorting
RECURSIVE Insert(_, _)
Insert(x, s) ==
    IF s = <<>> THEN <<x>>
    ELSE IF x < Head(s) THEN <<x>> \o s
    ELSE <<Head(s)>> \o Insert(x, Tail(s))

\* sorted(...) / numpy.sort: ascending
RECURSIVE SortAsc(_)
SortAsc(s) == IF s = <<>> THEN <<>> ELSE Insert(Head(s), SortAsc(Tail(s)))

RECURSIVE InsertIdx(_, _, _)
InsertIdx(k, s, ev) ==
    IF s = <<>> THEN <<k>>
    ELSE IF ev[k] < ev[Head(s)] THEN <<k>> \o s
    ELSE <<Head(s)>> \o InsertIdx(k, Tail(s), ev)

RECURSIVE ArgsortUpTo(_, _)
ArgsortUpTo(n, ev) == IF n = 0 THEN <<>> ELSE InsertIdx(n, ArgsortUpTo(n - 1, ev), ev)

\* numpy.argsort(evals)
Argsort(ev) == ArgsortUpTo(Len(ev), ev)

\* evecs[:, order]
PermuteColumns(evecs, order) == [m \in Slots |-> [k \in Slots |-> evecs[m][order[k]]]]

\* ------------------------------------------------------------ labelling
RECURSIVE DotUpTo(_, _, _, _)
DotUpTo(n, st, evecs, k) ==
    IF n = 0 THEN CZero ELSE CAdd(DotUpTo(n - 1, st, evecs, k), CMul(st[n], evecs[n][k]))

\* numpy.array(states).dot(evecs): row j holds the overlaps of state j
Overlaps(sts, evecs) == [j \in DOMAIN sts |-> [k \in Slots |-> DotUpTo(Dim, sts[j], evecs, k)]]

\* numpy.argmax of one row: the first position holding the greatest value
ArgMax(row) ==
    CHOOSE k \in DOMAIN row :
        /\ \A l \in DOMAIN row : ~CLess(row[k], row[l])
        /\ \A l \in DOMAIN row : l < k => row[l] # row[k]

\* numpy.argmax(..., axis=1)
Label(sts, evecs) == [j \in DOMAIN sts |-> ArgMax(Overlaps(sts, evecs)[j])]

HasDuplicates(ix) == \E j1, j2 \in DOMAIN ix : j1 # j2 /\ ix[j1] = ix[j2]


\* --------------------------------------------------------- result array
Range(s) == {s[n] : n \in DOMAIN s}

RECURSIVE UntrackedUpTo(_, _)
UntrackedUpTo(n, ix) ==
    IF n = 0 THEN <<>>
    ELSE IF n \in Range(ix) THEN UntrackedUpTo(n - 1, ix)
    ELSE Append(UntrackedUpTo(n - 1, ix), n)

\* the slots k of "for k in xrange(system.dim): if k not in indices", in order
Untracked(ix) == UntrackedUpTo(Dim, ix)

\* numpy.zeros((rows, cols))
Zeros(rows, cols) == [r \in 1..rows |-> [c \in 1..cols |-> 0]]

\* a slip: row j takes the j-th eigenvalue, whatever slot state j was given
TrackedByRow(ev, ix) == [j \in DOMAIN ix |-> ev[j]]

\* [evals[indices[j]] for j in xrange(len(indices))]
TrackedColumn(ev, ix) == [j \in DOMAIN ix |-> ev[ix[j]]]

\* The writes of one pass of the sweep loop into column col, and the error
\* that ends them: assigning len(indices) values to a shorter slice is a
\* ValueError, writing a row past the end of the array an IndexError.
WriteColumn(res, col, ev, ix, complete) ==
    LET rows == Len(res)
        unt == Untracked(ix)
        tr == TrackedColumn(ev, ix)
    IN  IF Len(ix) > rows
        THEN [results |-> res, error |-> "ValueError"]
        ELSE [results |->
                 [r \in 1..rows |->
                     [res[r] EXCEPT ![col] =
                         IF r <= Len(ix) THEN tr[r]
                         ELSE IF complete /\ r - Len(ix) <= Len(unt)
                              THEN ev[unt[r - Len(ix)]]
                              ELSE @]],
              error |-> IF complete /\ Len(ix) + Len(unt) > rows
                        THEN "IndexError" ELSE ""]

\* --------------------------------------------------------------- state
VARIABLES
    call,               \* the arguments as the caller passed them
    heap,               \* the dict objects, by reference
    pc,                 \* position in energy_spectrum, or "ops"
    hamiltonian_init, hamiltonian, states, params_init,
    evals, evecs, indices, warned, f_ranges, rvals, results, i, vals,
    error,              \* the exception raised, "" when none
    ndiag,              \* eigen-decompositions performed so far
    returned,           \* energy_spectrum has returned results
    objs,               \* the StateOperator instances, by reference
    created,            \* each instance as its constructor left it
    last                \* the latest StateOperator method call and its result

vars == <<call, heap, pc, hamiltonian_init, hamiltonian, states, params_init,
          evals, evecs, indices, warned, f_ranges, rvals, results, i, vals,
          error, ndiag, returned, objs, created, last>>

opsVars == <<objs, created, last>>

\* ------------------------------------------------------------- inputs
XSweep == [n \in 1..NSweep |-> n - 2]
YSweep == [n \in 1..NSweep |-> n]

RangeInputs ==
    {[type |-> "dict", d |-> [x |-> XSweep]],
     [type |-> "dict", d |-> [x |-> XSweep, y |-> YSweep]],
     [type |-> "list", d |-> [x |-> XSweep]]}

ParamsInput == [type |-> "dict", d |-> [x |-> 1, y |-> 1]]
ParamsInitInput == [type |-> "dict", d |-> [x |-> -1, y |-> 2]]

\* lists of basis states, the first of them times a unit-modulus factor
StateLists ==
    UNION {{[j \in 1..n |-> Scale(IF j = 1 THEN u ELSE COne, Unit(ks[j]))] :
                u \in Phases, ks \in [1..n -> Slots]} : n \in 1..MaxStates}

NoComponents == [given |-> FALSE, v |-> <<>>]

Calls ==
    [states : StateLists,
     input : {"std"},
     output : Bases,
     hamiltonian : {NoOp, UserH},
     components : {<<"a">>},
     hamiltonian_init : {NoOp, UserInitH},
     components_init : {NoComponents, [given |-> TRUE, v |-> <<"b">>]},
     params : {ParamsInput.d},
     params_init : {NoneRef, ParamsInitRef},
     ranges : RangeInputs,
     complete : BOOLEAN]

NoCall == [op |-> "none", self |-> 0, ret |-> 0, shape |-> 0, outcome |-> "", form |-> ""]

InitLocals ==
    /\ hamiltonian_init = call.hamiltonian_init
    /\ hamiltonian = call.hamiltonian
    /\ states = call.states
    /\ params_init = call.params_init
    /\ evals = <<>> /\ evecs = <<>> /\ indices = <<>>
    /\ warned = FALSE
    /\ f_ranges = NoneRef /\ vals = NoneRef
    /\ rvals = <<>> /\ results = <<>>
    /\ i = 0
    /\ error = ""
    /\ ndiag = 0
    /\ returned = FALSE

InitSpectrum ==
    /\ call \in Calls
    /\ heap = <<[type |-> "dict", d |-> call.params], call.ranges>>
              \o (IF call.params_init = NoneRef THEN <<>> ELSE <<ParamsInitInput>>)
    /\ pc = "resolve_init"
    /\ InitLocals
    /\ objs = <<>> /\ created = <<>> /\ last = NoCall

\* ------------------------------------------------- energy_spectrum steps
\* the initial Hamiltonian chosen by "if hamiltonian_init is None: ..."
ResolveInitial(hinit, h, cinit, comps) ==
    IF hinit.name = "None"
    THEN IF h.name = "None"
         THEN SystemH(IF cinit.given THEN cinit.v ELSE comps)
         ELSE h
    ELSE hinit

ResolveInit ==
    /\ pc = "resolve_init"
    /\ hamiltonian_init' =
          ChangeBasis(ResolveInitial(hamiltonian_init, hamiltonian,
                                     call.components_init, call.components),
                      call.output, ParamsRef)
    /\ pc' = "subspace"
    /\ UNCHANGED <<call, heap, hamiltonian, states, params_init, evals, evecs,
                   indices, warned, f_ranges, rvals, results, i, vals, error,
                   ndiag, returned, opsVars>>

SubspaceStep ==
    /\ pc = "subspace"
    /\ states' = Subspace(states, call.input, call.output)
    /\ pc' = "check_ranges"
    /\ UNCHANGED <<call, heap, hamiltonian_init, hamiltonian, params_init, evals,
                   evecs, indices, warned, f_ranges, rvals, results, i, vals,
                   error, ndiag, returned, opsVars>>

\* a slip: the type test dropped
AnyType(obj) == TRUE

\* type(ranges) is dict
IsDict(obj) == obj.type = "dict"

CheckRanges ==
    /\ pc = "check_ranges"
    /\ IF IsDict(heap[RangesRef])
       THEN pc' = "diag_init" /\ error' = error
       ELSE pc' = "raised" /\ error' = "ValueError"
    /\ UNCHANGED <<call, heap, hamiltonian_init, hamiltonian, states, params_init,
                   evals, evecs, indices, warned, f_ranges, rvals, results, i,
                   vals, ndiag, returned, opsVars>>

DiagInit ==
    /\ pc = "diag_init"
    /\ params_init' = IF params_init = NoneRef THEN ParamsRef ELSE params_init
    /\ LET e == Eig(hamiltonian_init, heap[params_init'].d)
       IN  /\ evecs' = PermuteColumns(e.evecs, Argsort(e.evals))
           /\ evals' = SortAsc(e.evals)
    /\ ndiag' = ndiag + 1
    /\ pc' = "label"
    /\ UNCHANGED <<call, heap, hamiltonian_init, hamiltonian, states, indices,
                   warned, f_ranges, rvals, results, i, vals, error, returned,
                   opsVars>>

LabelStates ==
    /\ pc = "label"
    /\ indices' = Label(states, evecs)
    /\ warned' = HasDuplicates(indices')
    /\ pc' = "resolve_evol"
    /\ UNCHANGED <<call, heap, hamiltonian_init, hamiltonian, states, params_init,
                   evals, evecs, f_ranges, rvals, results, i, vals, error, ndiag,
                   returned, opsVars>>

ResolveEvol ==
    /\ pc = "resolve_evol"
    /\ hamiltonian' =
          ChangeBasis(IF hamiltonian.name = "None" THEN SystemH(call.components)
                      ELSE hamiltonian,
                      call.output, ParamsRef)
    /\ pc' = "expand"
    /\ UNCHANGED <<call, heap, hamiltonian_init, states, params_init, evals,
                   evecs, indices, warned, f_ranges, rvals, results, i, vals,
                   error, ndiag, returned, opsVars>>

\* ranges.keys()[0]
FirstKey(d) == CHOOSE k \in DOMAIN d : TRUE

\* len(rvals.values()[0])
SweepLen(rv) == Len(rv[FirstKey(rv)])

ExpandRanges ==
    /\ pc = "expand"
    /\ IF heap[RangesRef].type # "dict"
       THEN \* dict.update refuses what is no mapping
            /\ pc' = "raised" /\ error' = "TypeError"
            /\ UNCHANGED <<heap, f_ranges, rvals, results>>
       ELSE LET c == Copy(heap, ParamsRef)
                h1 == Update(c.heap, c.ref, heap[RangesRef].d)
                rv == RangeExpand(DOMAIN heap[RangesRef].d, h1[c.ref].d)
                rd == IF rv.type # "dict"
                      THEN [k \in {FirstKey(heap[RangesRef].d)} |-> rv.d[k]]
                      ELSE rv.d
            IN  /\ heap' = h1
                /\ f_ranges' = c.ref
                /\ rvals' = rd
                /\ results' = Zeros(IF call.complete THEN Dim ELSE Len(states),
                                    SweepLen(rd))
                /\ pc' = "sweep" /\ error' = error
    /\ UNCHANGED <<call, hamiltonian_init, hamiltonian, states, params_init,
                   evals, evecs, indices, warned, i, vals, ndiag, returned,
                   opsVars>>

\* the values of sweep point n (1-based): val -> rvals[val][n]
PointValues(rv, n) == [k \in DOMAIN rv |-> rv[k][n]]

SweepStep ==
    /\ pc = "sweep"
    /\ i < SweepLen(rvals)
    /\ LET c == NewVals(heap, ParamsRef)
           h1 == Update(c.heap, c.ref, PointValues(rvals, i + 1))
           ev == SortAsc(Eig(hamiltonian, h1[c.ref].d).evals)
           w == WriteColumn(results, i + 1, ev, indices, call.complete)
       IN  /\ heap' = h1
           /\ vals' = c.ref
           /\ evals' = ev
           /\ results' = w.results
           /\ error' = w.error
           /\ IF w.error = ""
              THEN i' = i + 1 /\ pc' = pc
              ELSE i' = i /\ pc' = "raised"
    /\ ndiag' = ndiag + 1
    /\ UNCHANGED <<call, hamiltonian_init, hamiltonian, states, params_init,
                   evecs, indices, warned, f_ranges, rvals, returned, opsVars>>

Return ==
    /\ pc = "sweep"
    /\ i = SweepLen(rvals)
    /\ returned' = TRUE
    /\ pc' = "done"
    /\ UNCHANGED <<call, heap, hamiltonian_init, hamiltonian, states, params_init,
                   evals, evecs, indices, warned, f_ranges, rvals, results, i,
                   vals, error, ndiag, opsVars>>

\* ------------------------------------------------------ StateOperators
\* An Operator a StateOperator owns is the sequence of its name and of the
\* structural methods applied to it since.
OpTransform(op) == Append(op, "transform")      \* transform_op(operator)
OpRestrict(op) == Append(op, "restrict")        \* operator.restrict(*indicies)
OpCollapse(op) == Append(op, "collapse")        \* operator.collapse(*wrt, **params)

Dummy(basis) ==
    [cls |-> "Dummy", H |-> <<>>, coefficient |-> "", operator |-> <<>>, basis |-> basis]
\* SchrodingerStateOperator.init
Schrodinger(H, basis) ==
    [cls |-> "Schrodinger", H |-> H, coefficient |-> "", operator |-> <<>>, basis |-> basis]
\* LindbladStateOperator.init
Lindblad(coefficient, operator, basis) ==
    [cls |-> "Lindblad", H |-> <<>>, coefficient |-> coefficient, operator |-> operator,
     basis |-> basis]

\* a constructor call: a new instance, and the reference to it
New(os, inst) == [objs |-> Append(os, inst), ret |-> Len(os) + 1]

DummyTransform(os, self) == [objs |-> os, ret |-> self]
DummyRestrict(os, self) == [objs |-> os, ret |-> self]
DummyCollapse(os, self) == [objs |-> os, ret |-> self]

\* a slip: the receiver's own Hamiltonian rewritten, and the receiver returned
SchrodingerTransformInPlace(os, self) ==
    [objs |-> [os EXCEPT ![self].H = OpTransform(@)], ret |-> self]

SchrodingerTransform(os, self) == New(os, Schrodinger(OpTransform(os[self].H), "None"))
SchrodingerRestrict(os, self) == New(os, Schrodinger(OpRestrict(os[self].H), "None"))
SchrodingerCollapse(os, self) ==
    New(os, Schrodinger(OpCollapse(os[self].H), os[self].basis))

LindbladTransform(os, self) ==
    New(os, Lindblad(os[self].coefficient, OpTransform(os[self].operator), "None"))
LindbladRestrict(os, self) ==
    New(os, Lindblad(os[self].coefficient, OpRestrict(os[self].operator), "None"))
LindbladCollapse(os, self) ==
    New(os, Lindblad(os[self].coefficient, OpCollapse(os[self].operator), os[self].basis))

\* the capability flags
ForState(cls) == cls = "Schrodinger"
ForEnsemble(cls) == cls \in {"Dummy", "Schrodinger", "Lindblad"}

\* __call__(state, t, params) on a state of `shape` dimensions, params being
\* the object at p: the heap after the call and what the call produced
DummyCall(h, shape, p) == [heap |-> h, outcome |-> "value", form |-> "state"]

SchrodingerCall(h, shape, p) ==
    LET pams == Len(h) + 1
        h1 == Append(h, [type |-> "dict", d |-> [t |-> 0]])
        h2 == Update(h1, pams, h[p].d)
    IN  [heap |-> SubSeq(h2, 1, Len(h)),      \* pams dies with the call
         outcome |-> "value",
         form |-> IF shape > 1 THEN "commutator" ELSE "apply"]

LindbladCall(h, shape, p) == [heap |-> h, outcome |-> "value", form |-> "dissipator"]

InitialObjs(basis) ==
    <<Dummy(basis), Schrodinger(<<"H0">>, basis), Lindblad("gamma", <<"O0">>, basis)>>

OpsCall ==
    [states |-> <<Unit(1)>>, input |-> "std", output |-> "std", hamiltonian |-> NoOp,
     components |-> <<"a">>, hamiltonian_init |-> NoOp, components_init |-> NoComponents,
     params |-> ParamsInput.d, params_init |-> NoneRef,
     ranges |-> [type |-> "dict", d |-> [x |-> XSweep]], complete |-> FALSE]

InitOps ==
    /\ call = OpsCall
    /\ heap = <<ParamsInput, call.ranges>>
    /\ pc = "ops"
    /\ InitLocals
    /\ \E b \in {"None", "b0"} : objs = InitialObjs(b)
    /\ created = objs
    /\ last = NoCall

spectrumVars == <<call, pc, hamiltonian_init, hamiltonian, states, params_init,
                  evals, evecs, indices, warned, f_ranges, rvals, results, i, vals,
                  error, ndiag, returned>>

\* the effect of a structural method call that produced r
Structural(name, self, r) ==
    /\ Len(r.objs) <= MaxObjs
    /\ objs' = r.objs
    /\ created' = IF Len(r.objs) > Len(objs)
                  THEN Append(created, r.objs[Len(r.objs)]) ELSE created
    /\ last' = [NoCall EXCEPT !.op = name, !.self = self, !.ret = r.ret]
    /\ UNCHANGED <<heap, spectrumVars>>

Transform ==
    /\ pc = "ops"
    /\ \E self \in DOMAIN objs :
          Structural("transform", self,
              CASE objs[self].cls = "Dummy" -> DummyTransform(objs, self)
                [] objs[self].cls = "Schrodinger" -> SchrodingerTransform(objs, self)
                [] objs[self].cls = "Lindblad" -> LindbladTransform(objs, self))

Restrict ==
    /\ pc = "ops"
    /\ \E self \in DOMAIN objs :
          Structural("restrict", self,
              CASE objs[self].cls = "Dummy" -> DummyRestrict(objs, self)
                [] objs[self].cls = "Schrodinger" -> SchrodingerRestrict(objs, self)
                [] objs[self].cls = "Lindblad" -> LindbladRestrict(objs, self))

Collapse ==
    /\ pc = "ops"
    /\ \E self \in DOMAIN objs :
          Structural("collapse", self,
              CASE objs[self].cls = "Dummy" -> DummyCollapse(objs, self)
                [] objs[self].cls = "Schrodinger" -> SchrodingerCollapse(objs, self)
                [] objs[self].cls = "Lindblad" -> LindbladCollapse(objs, self))

Call ==
    /\ pc = "ops"
    /\ \E self \in DOMAIN objs, shape \in {1, 2} :
          LET r == CASE objs[self].cls = "Dummy" -> DummyCall(heap, shape, ParamsRef)
                     [] objs[self].cls = "Schrodinger" -> SchrodingerCall(heap, shape, ParamsRef)
                     [] objs[self].cls = "Lindblad" -> LindbladCall(heap, shape, ParamsRef)
          IN  /\ heap' = r.heap
              /\ last' = [NoCall EXCEPT !.op = "call", !.self = self, !.shape = shape,
                                        !.outcome = r.outcome, !.form = r.form]
    /\ UNCHANGED <<objs, created, spectrumVars>>

Init == InitSpectrum \/ InitOps

Next ==
    \/ ResolveInit
    \/ SubspaceStep
    \/ CheckRanges
    \/ DiagInit
    \/ LabelStates
    \/ ResolveEvol
    \/ ExpandRanges
    \/ SweepStep
    \/ Return
    \/ Transform
    \/ Restrict
    \/ Collapse
    \/ Call

Spec == Init /\ [][Next]_vars

\* ----------------------------------------------------------- properties
AfterResolveInit == pc \notin {"resolve_init", "ops"}
Labelled == pc \in {"resolve_evol", "expand", "sweep", "done"}
           \/ (pc = "raised" /\ error # "ValueError")
Sweeping == pc \in {"sweep", "done"} \/ (pc = "raised" /\ error = "IndexError")
Ended == pc \in {"done", "raised"}
StructuralOps == {"transform", "restrict", "collapse"}

\* the value at position p of the ascending order of ev, by counting
RankValue(ev, p) ==
    CHOOSE v \in Range(ev) :
        /\ Cardinality({k \in DOMAIN ev : ev[k] < v}) < p
        /\ p <= Cardinality({k \in DOMAIN ev : ev[k] <= v})

\* the eigenvalues of the evolution Hamiltonian at sweep point n, as solved
SweepEig(n) == Eig(hamiltonian, Overlay(call.params, PointValues(rvals, n))).evals

\* the slots the initial Hamiltonian gives the tracked states
InitialSlots ==
    LET e == Eig(hamiltonian_init, heap[params_init].d)
    IN  Label(states, PermuteColumns(e.evecs, Argsort(e.evals)))

Count(f, v) == Cardinality({k \in DOMAIN f : f[k] = v})

\* C1: once the tracked states are labelled, indices is the labelling from
\* the initial Hamiltonian and stays so, and every sweep column n computed so
\* far holds, in row j, the element at position indices[j] of the ascending
\* eigenvalues of the evolution Hamiltonian at sweep point n.
C1_SlotsFixedAtStart ==
    /\ Labelled => indices = InitialSlots
    /\ Sweeping =>
          \A n \in 1..i : \A j \in DOMAIN indices :
              results[j][n] = RankValue(SweepEig(n), indices[j])

C1_Witness ==
    /\ pc = "done"
    /\ Len(indices) = 2
    /\ indices[1] > indices[2]
    /\ results[1][1] # results[1][2]
    /\ results[1][1] # results[2][1]

\* C2: with complete=True an ended call has returned system.dim rows; in
\* every column the rows after the tracked ones hold the untracked slots'
\* eigenvalues in increasing slot order, and the column holds each
\* eigenvalue of the full diagonalization exactly as often as it occurs.
C2_CompleteCoversSpectrum ==
    (call.complete /\ Ended /\ call.ranges.type = "dict") =>
        /\ pc = "done" /\ returned
        /\ Len(results) = Dim
        /\ \A n \in 1..SweepLen(rvals) :
              /\ \A c \in 1..(Dim - Len(indices)) :
                    /\ c <= Len(Untracked(indices))
                    /\ results[Len(indices) + c][n]
                          = RankValue(SweepEig(n), Untracked(indices)[c])
              /\ \A v \in Range(SweepEig(n)) :
                    Count([r \in 1..Dim |-> results[r][n]], v) = Count(SweepEig(n), v)

\* C3: when two tracked states share a slot, the call only warns: it ends by
\* returning the result array after all sweep points, with no error.
C3_AmbiguityOnlyWarns ==
    (Ended /\ HasDuplicates(indices)) =>
        /\ warned
        /\ pc = "done" /\ returned /\ error = ""
        /\ i = SweepLen(rvals)

\* C4: a ranges argument that is no dict ends the call with the invalid-range
\* error before any eigen-decomposition, and no result array is made.
C4_NonDictRejectedFirst ==
    call.ranges.type # "dict" =>
        /\ ndiag = 0
        /\ results = <<>> /\ ~returned
        /\ pc \in {"resolve_init", "subspace", "check_ranges", "raised"}
        /\ pc = "raised" => error = "ValueError"

C4_Witness == pc = "raised" /\ error = "ValueError" /\ call.ranges.type = "list"

\* C5: the slot of every tracked state is a slot of greatest overlap
\* magnitude, and is the slot the same labelling gives the state times any
\* unit-modulus factor.
C5_SlotIsPhaseInvariant ==
    Labelled =>
        \A j \in DOMAIN indices :
            /\ \A k \in Slots :
                  Norm2(Overlaps(states, evecs)[j][k])
                      <= Norm2(Overlaps(states, evecs)[j][indices[j]])
            /\ \A u \in Phases :
                  Label(<<Scale(u, states[j])>>, evecs)[1] = indices[j]

\* C6 as stated: transform, restrict and collapse of every StateOperator
\* return an instance other than the receiver.
C6_AlwaysNewInstance ==
    last.op \in StructuralOps => last.ret # last.self

\* C6 amended: transform, restrict and collapse of SchrodingerStateOperator
\* and LindbladStateOperator return a newly constructed instance of the
\* receiver's class, those of DummyStateOperator return the receiver, and
\* every instance still owns what its constructor gave it.
C6_NewUnlessDummy ==
    /\ last.op \in StructuralOps =>
          IF objs[last.self].cls = "Dummy"
          THEN last.ret = last.self
          ELSE /\ last.ret # last.self
               /\ last.ret = Len(objs)
               /\ objs[last.ret].cls = objs[last.self].cls
    /\ \A id \in DOMAIN objs : objs[id] = created[id]

C6_Witness ==
    /\ last.op = "collapse"
    /\ objs[last.self].cls = "Schrodinger"
    /\ Len(objs[last.self].H) = 2
    /\ last.ret # last.self

\* C7: a call on a state shape the receiver's capability flags do not
\* support ends in an error, never in a value.
C7_UnsupportedShapeSignalled ==
    (/\ last.op = "call"
     /\ \/ last.shape = 1 /\ ~ForState(objs[last.self].cls)
        \/ last.shape = 2 /\ ~ForEnsemble(objs[last.self].cls))
        => last.outcome = "error"

\* C8: with no hamiltonian_init, the initial Hamiltonian is
\* system.H(*components_init) whenever components_init is given, and the
\* evolution Hamiltonian otherwise.
C8_ComponentsInitDecides ==
    (AfterResolveInit /\ call.hamiltonian_init.name = "None") =>
        LET want == IF call.components_init.given
                    THEN SystemH(call.components_init.v)
                    ELSE IF call.hamiltonian.name = "None"
                         THEN SystemH(call.components)
                         ELSE call.hamiltonian
        IN  /\ hamiltonian_init.name = want.name
            /\ hamiltonian_init.comps = want.comps

\* C9: the initial Hamiltonian is changed to the output basis under
\* params_init (params when params_init is not given), the evolution
\* Hamiltonian under params.
C9_InitialBasisUnderParamsInit ==
    /\ AfterResolveInit =>
          /\ hamiltonian_init.basis = call.output
          /\ heap[hamiltonian_init.bparams].d
                = (IF call.params_init = NoneRef THEN call.params
                   ELSE heap[call.params_init].d)
    /\ pc \in {"expand", "sweep", "done"} =>
          /\ hamiltonian.basis = call.output
          /\ heap[hamiltonian.bparams].d = call.params

\* C10: the caller's params and ranges objects hold what they held at the
\* call, in energy_spectrum and across StateOperator calls, and the
\* parameter vector of the latest sweep point is params overlaid with that
\* point's range values alone.
C10_CallerMappingsUntouched ==
    /\ heap[ParamsRef] = [type |-> "dict", d |-> call.params]
    /\ heap[RangesRef] = call.ranges
    /\ (pc \in {"sweep", "done"} /\ i >= 1) =>
          heap[vals].d = Overlay(call.params, PointValues(rvals, i))

C10_Witness ==
    /\ pc = "done"
    /\ DOMAIN rvals = {"x", "y"}
    /\ heap[vals].d # call.params
    /\ DOMAIN heap[f_ranges].d = {"x", "y"}

====
